---- MODULE Spec2Model ----
(***************************************************************************)
(* A model of package onion (github.com/lvht/onion): the Onion middleware  *)
(* stack, its handler slice with Go slice semantics (backing array, len,   *)
(* cap), the chain of middleware links that build composes, and the nested *)
(* execution of ServeHTTP, one statement per step.                         *)
(***************************************************************************)
EXTENDS Integers, Sequences, FiniteSets, TLC

\* ------------------------------------------------------------------ bounds
\* Onions a behaviour creates (New and With).
MaxOnions == 3
\* Middleware links alive at once (build allocates one per handler).
MaxLinks == 3

\* ---------------------------------------------------------------- handlers
\* The nil Handler interface value.
NilH == [kind |-> "nil", id |-> "nil"]

\* HandlerFunc(f): an onion handler that calls f.
HandlerFunc(f) == [kind |-> "func", id |-> f]

\* Wrap(h): the onion handler made from the http.Handler h.
Wrap(h) == [kind |-> "wrap", id |-> h]

\* WrapFunc(f): the onion handler made from the http.HandlerFunc f.
WrapFunc(f) == [kind |-> "wrapfunc", id |-> f]

\* The handler functions of the tests: "A" marks, calls next and marks
\* again; "S" marks and returns without calling next.
FuncIds == {"A", "S"}

\* The plain http.Handlers given to UseHandler.
HttpIds == {"w"}

Handlers == {HandlerFunc(f) : f \in FuncIds} \cup {Wrap(h) : h \in HttpIds}

\* Handler functions that fail or guard against failure: "P" marks and
\* panics; "D" defers a marker and then does as "A"; "R" defers a marker
\* with recover() and then does as "A".
FailIds == {"P", "D", "R"}

\* What a handler does, one statement per element: "before"/"after"/"run"
\* record a marker, "next" is next.ServeHTTP(rw, r), "panic" is a panic (a
\* call of a nil function is one).
FuncBody(f) ==
    IF f = "nil" THEN <<"panic">>
    ELSE IF f = "S" THEN <<"before">>
    ELSE IF f = "P" THEN <<"before", "panic">>
    ELSE <<"before", "next", "after">>

\* The handler defers a function that records a marker.
Defers(h) == h.kind = "func" /\ h.id \in {"D", "R"}

\* The deferred function calls recover().
Recovers(h) == h.kind = "func" /\ h.id = "R"

\* Mutant: the closure forgets to call next.
WrapBody_noNext(h) == <<"run">>

\* The closure Wrap returns: the wrapped handler, then next. Calling a nil
\* http.Handler, or a nil function, panics.
WrapBody(h) == IF h = "nil" THEN <<"panic">> ELSE <<"run", "next">>

\* The closure WrapFunc returns: the wrapped function, then next.
WrapFuncBody(f) == IF f = "nil" THEN <<"panic">> ELSE <<"run", "next">>

Body(h) ==
    IF h.kind = "wrap" THEN WrapBody(h.id)
    ELSE IF h.kind = "wrapfunc" THEN WrapFuncBody(h.id)
    ELSE FuncBody(h.id)

\* -------------------------------------------------------------------- state
VARIABLES
    arrays,   \* the heap of backing arrays: arrays[a] is a sequence of cap handlers
    links,    \* the heap of middleware values build allocated (&next)
    onions,   \* the Onions created so far: [middleware, handlers]
    parent,   \* parent[p]: the Onion p was made from by With, 0 for New
    held,     \* the slice the caller still holds, if any: <<[src, s]>>
    req,      \* the caller's ServeHTTP call, in progress or just returned
    req2,     \* the ServeHTTP call of a second goroutine
    result    \* "panic" when the caller's last call panicked, else "ok"

vars == <<arrays, links, onions, parent, held, req, req2, result>>

\* --------------------------------------------------------------------- heap
\* A heap is a sequence of cells and an address is an index into it; 0 is
\* nil. Allocation adds a cell. After every call the cells nothing refers to
\* any more are dropped and the others are numbered in the order in which
\* the Onions, the caller's slices and the call stack refer to them
\* (addresses are not observable in the program).
Front(s) == SubSeq(s, 1, Len(s) - 1)

Range(s) == {s[i] : i \in DOMAIN s}

Alloc(heap, v) == [at |-> Len(heap) + 1, heap |-> Append(heap, v)]

\* The place of address a in the new numbering.
Pos(order, a) == IF a = 0 THEN 0 ELSE CHOOSE i \in DOMAIN order : order[i] = a

\* The addresses in as, each once, in the order of first occurrence.
RECURSIVE Distinct(_, _)
Distinct(as, acc) ==
    IF as = <<>> THEN acc
    ELSE Distinct(Tail(as),
                  IF Head(as) = 0 \/ Head(as) \in Range(acc) THEN acc
                  ELSE Append(acc, Head(as)))

\* The links reached from address a by following next, those in seen left out.
RECURSIVE WalkFrom(_, _, _)
WalkFrom(lks, a, seen) ==
    IF a = 0 \/ a \in seen THEN <<>>
    ELSE <<a>> \o WalkFrom(lks, lks[a].next, seen \cup {a})

RECURSIVE LinkOrder(_, _, _)
LinkOrder(lks, starts, acc) ==
    IF starts = <<>> THEN acc
    ELSE LinkOrder(lks, Tail(starts),
                   acc \o WalkFrom(lks, Head(starts), Range(acc)))

\* ------------------------------------------------------------------- slices
\* A slice header. arr = 0 is a slice with no backing array.
NilSlice == [arr |-> 0, len |-> 0, cap |-> 0]

\* The elements a slice shows: s[0:len].
Elems(arrs, s) == IF s.len = 0 THEN <<>> ELSE SubSeq(arrs[s.arr], 1, s.len)

Pad(hs, n) == hs \o [i \in 1..(n - Len(hs)) |-> NilH]

\* The capacity append grows to (runtime growslice, small slices).
GrowCap(oldCap, newLen) == IF newLen > 2 * oldCap THEN newLen ELSE 2 * oldCap

\* make([]Handler, len(hs), c) filled with hs.
MakeSlice(arrs, hs, c) ==
    IF c = 0 THEN [s |-> NilSlice, arrays |-> arrs]
    ELSE LET a == Alloc(arrs, Pad(hs, c))
         IN [s |-> [arr |-> a.at, len |-> Len(hs), cap |-> c], arrays |-> a.heap]

\* append(s, hs...): in place when the capacity allows, else into a new array.
\* Gives the new slice header and the heap after the call.
GoAppend(arrs, s, hs) ==
    LET n == s.len + Len(hs) IN
    IF Len(hs) = 0 THEN [s |-> s, arrays |-> arrs]
    ELSE IF n <= s.cap
    THEN [s |-> [arr |-> s.arr, len |-> n, cap |-> s.cap],
          arrays |-> [arrs EXCEPT ![s.arr] =
                        [i \in 1..s.cap |->
                           IF i > s.len /\ i <= n THEN hs[i - s.len] ELSE @[i]]]]
    ELSE MakeSlice(arrs, Elems(arrs, s) \o hs, GrowCap(s.cap, n))

\* -------------------------------------------------------------------- chain
\* The zero middleware: no handler, no next.
ZeroMw == [handler |-> NilH, next |-> 0]

\* Mutant: the recursion stops one handler early (len(handlers) > 2).
RECURSIVE build_dropsLast(_, _)
build_dropsLast(hs, lks) ==
    IF Len(hs) = 0 THEN [m |-> ZeroMw, links |-> lks]
    ELSE LET sub == IF Len(hs) > 2 THEN build_dropsLast(Tail(hs), lks)
                    ELSE [m |-> ZeroMw, links |-> lks]
             nxt == Alloc(sub.links, sub.m)
         IN [m |-> [handler |-> Head(hs), next |-> nxt.at], links |-> nxt.heap]

\* Mutant: the last handler's next is a link that holds the handler again
\* and points to itself.
RECURSIVE build_selfLoop(_, _)
build_selfLoop(hs, lks) ==
    IF Len(hs) = 0 THEN [m |-> ZeroMw, links |-> lks]
    ELSE LET sub == IF Len(hs) > 1 THEN build_selfLoop(Tail(hs), lks)
                    ELSE [m |-> [handler |-> Head(hs), next |-> Len(lks) + 1],
                          links |-> lks]
             nxt == Alloc(sub.links, sub.m)
         IN [m |-> [handler |-> Head(hs), next |-> nxt.at], links |-> nxt.heap]

\* Mutant: the last handler gets no next (no terminal link).
RECURSIVE build_nilTerminal(_, _)
build_nilTerminal(hs, lks) ==
    IF Len(hs) = 0 THEN [m |-> ZeroMw, links |-> lks]
    ELSE IF Len(hs) = 1 THEN [m |-> [handler |-> Head(hs), next |-> 0], links |-> lks]
    ELSE LET sub == build_nilTerminal(Tail(hs), lks)
             nxt == Alloc(sub.links, sub.m)
         IN [m |-> [handler |-> Head(hs), next |-> nxt.at], links |-> nxt.heap]

\* build(handlers): the entry middleware, and the heap with the links added.
RECURSIVE build(_, _)
build(hs, lks) ==
    IF Len(hs) = 0 THEN [m |-> ZeroMw, links |-> lks]
    ELSE LET sub == IF Len(hs) > 1 THEN build(Tail(hs), lks)
                    ELSE [m |-> ZeroMw, links |-> lks]
             nxt == Alloc(sub.links, sub.m)
         IN [m |-> [handler |-> Head(hs), next |-> nxt.at], links |-> nxt.heap]

\* The handlers linked from m, read link by link up to the terminal link.
RECURSIVE ChainFrom(_, _, _)
ChainFrom(lks, m, fuel) ==
    IF m = ZeroMw \/ fuel = 0 THEN <<>>
    ELSE IF m.next = 0 THEN <<m.handler>>
    ELSE <<m.handler>> \o ChainFrom(lks, lks[m.next], fuel - 1)

Chain(lks, m) == ChainFrom(lks, m, Len(lks) + 1)

\* --------------------------------------------------------------- operations
\* Each operation gives the Onion it returns or leaves behind, the two heaps
\* after the call, and whether the call returned ("ok") or panicked.

\* New(handlers...): the Onion keeps the slice it is given and builds its chain.
New(arrs, lks, s) ==
    LET b == build(Elems(arrs, s), lks) IN
    [o |-> [middleware |-> b.m, handlers |-> s],
     arrays |-> arrs, links |-> b.links, result |-> "ok"]

\* Mutant: the slice is made but n's handlers are not copied into it.
With_noCopy(arrs, lks, n, hs) ==
    LET cur == MakeSlice(arrs, Pad(<<>>, n.handlers.len), n.handlers.len)
        app == GoAppend(cur.arrays, cur.s, hs)
    IN New(app.arrays, lks, app.s)

\* Mutant: hs is appended to n's own slice.
With_sharesSlice(arrs, lks, n, hs) ==
    LET app == GoAppend(arrs, n.handlers, hs)
    IN New(app.arrays, lks, app.s)

\* Mutant: the new handlers are linked after the last link of n's own chain.
With_extendsChain(arrs, lks, n, hs) ==
    LET cur == MakeSlice(arrs, Elems(arrs, n.handlers), n.handlers.len)
        app == GoAppend(cur.arrays, cur.s, hs)
        b == build(hs, lks)
        walk == WalkFrom(lks, n.middleware.next, {})
    IN IF n.middleware = ZeroMw \/ hs = <<>> THEN New(app.arrays, lks, app.s)
       ELSE [o |-> [middleware |-> n.middleware, handlers |-> app.s],
             arrays |-> app.arrays,
             links |-> [b.links EXCEPT ![walk[Len(walk)]] = b.m],
             result |-> "ok"]

\* n.With(hs...): copy n's handlers into a slice of exactly their length,
\* append hs, and make a new Onion of the result.
With(arrs, lks, n, hs) ==
    LET cur == MakeSlice(arrs, Elems(arrs, n.handlers), n.handlers.len)
        app == GoAppend(cur.arrays, cur.s, hs)
    IN New(app.arrays, lks, app.s)

\* Mutant: the handler is put in front of the others.
Use_prepends(arrs, lks, n, h) ==
    IF h = NilH
    THEN [o |-> n, arrays |-> arrs, links |-> lks, result |-> "panic"]
    ELSE LET app == GoAppend(arrs, n.handlers, <<h>>)
             es == <<h>> \o Elems(arrs, n.handlers)
             b == build(es, lks)
         IN [o |-> [middleware |-> b.m, handlers |-> app.s],
             arrays |-> [app.arrays EXCEPT ![app.s.arr] = Pad(es, app.s.cap)],
             links |-> b.links, result |-> "ok"]

\* Mutant: the chain is extended in place: the terminal link takes the handler.
Use_extendsChain(arrs, lks, n, h) ==
    IF h = NilH
    THEN [o |-> n, arrays |-> arrs, links |-> lks, result |-> "panic"]
    ELSE LET app == GoAppend(arrs, n.handlers, <<h>>)
             b == build(Elems(app.arrays, app.s), lks)
             walk == WalkFrom(lks, n.middleware.next, {})
             nxt == Alloc(lks, ZeroMw)
         IN IF n.middleware = ZeroMw
            THEN [o |-> [middleware |-> b.m, handlers |-> app.s],
                  arrays |-> app.arrays, links |-> b.links, result |-> "ok"]
            ELSE [o |-> [middleware |-> n.middleware, handlers |-> app.s],
                  arrays |-> app.arrays,
                  links |-> [nxt.heap EXCEPT ![walk[Len(walk)]] =
                                               [handler |-> h, next |-> nxt.at]],
                  result |-> "ok"]

\* Mutant: no nil check.
Use_noNilCheck(arrs, lks, n, h) ==
    LET app == GoAppend(arrs, n.handlers, <<h>>)
        b == build(Elems(app.arrays, app.s), lks)
    IN [o |-> [middleware |-> b.m, handlers |-> app.s],
        arrays |-> app.arrays, links |-> b.links, result |-> "ok"]

\* Mutant: the chain is not rebuilt.
Use_noRebuild(arrs, lks, n, h) ==
    IF h = NilH
    THEN [o |-> n, arrays |-> arrs, links |-> lks, result |-> "panic"]
    ELSE LET app == GoAppend(arrs, n.handlers, <<h>>)
         IN [o |-> [middleware |-> n.middleware, handlers |-> app.s],
             arrays |-> app.arrays, links |-> lks, result |-> "ok"]

\* n.Use(h): panic on nil, else append h and rebuild the chain.
Use(arrs, lks, n, h) ==
    IF h = NilH
    THEN [o |-> n, arrays |-> arrs, links |-> lks, result |-> "panic"]
    ELSE LET app == GoAppend(arrs, n.handlers, <<h>>)
             b == build(Elems(app.arrays, app.s), lks)
         IN [o |-> [middleware |-> b.m, handlers |-> app.s],
             arrays |-> app.arrays, links |-> b.links, result |-> "ok"]

UseFunc(arrs, lks, n, f) == Use(arrs, lks, n, HandlerFunc(f))

UseHandler(arrs, lks, n, h) == Use(arrs, lks, n, Wrap(h))

UseHandlerFunc(arrs, lks, n, f) == UseHandler(arrs, lks, n, f)

\* Mutant: the middleware itself goes on to next when the handler returns.
MwServeHTTP_autoNext(m) ==
    IF m.handler = NilH THEN <<>> ELSE Body(m.handler) \o <<"next">>

\* Mutant: the handler is called without the nil check.
MwServeHTTP_noNilCheck(m) == Body(m.handler)

\* middleware.ServeHTTP: nothing for a nil handler, else the handler's
\* statements, run with m.next as next.
MwServeHTTP(m) == IF m.handler = NilH THEN <<>> ELSE Body(m.handler)

\* ------------------------------------------------------------------ actions
Idle == [status |-> "idle", p |-> 0, hs |-> <<>>, stack |-> <<>>, trace |-> <<>>]

Init ==
    /\ arrays = <<>>
    /\ links = <<>>
    /\ onions = <<>>
    /\ parent = <<>>
    /\ held = <<>>
    /\ req = Idle
    /\ req2 = Idle
    /\ result = "ok"

\* The lists the caller passes to New and With.
ArgLists ==
    {<<>>} \cup {<<h>> : h \in Handlers \cup {NilH}}
           \cup {<<HandlerFunc("S"), WrapFunc("w")>>}

\* The lists with no nil among the elements: those given to With, and those
\* of a caller that goes on using its list.
KeptLists == {hs \in ArgLists : NilH \notin Range(hs)}

Onions == 1..Len(onions)

HandlerSeq(p) == Elems(arrays, onions[p].handlers)

ChainOf(p) == Chain(links, onions[p].middleware)

LiveLinks == Len(links)

Roots == {p \in Onions : parent[p] = 0}

\* The caller is not inside ServeHTTP.
Returned == req.status \notin {"run", "unwind"}

\* A call returns or panics with r, leaving the Onions os, the caller's
\* slices hl and the call stack st; the heaps are tidied.
Returns(r, os, hl, rq) ==
    LET lo == LinkOrder(r.links,
                        [p \in DOMAIN os |-> os[p].middleware.next]
                          \o [i \in DOMAIN rq.stack |-> rq.stack[i].m.next]
                          \o [i \in DOMAIN req2.stack |-> req2.stack[i].m.next],
                        <<>>)
        ao == Distinct([p \in DOMAIN os |-> os[p].handlers.arr]
                         \o [i \in DOMAIN hl |-> hl[i].s.arr], <<>>)
        mw(m) == [m EXCEPT !.next = Pos(lo, @)]
        sl(s) == [s EXCEPT !.arr = Pos(ao, @)]
    IN /\ result' = r.result
       /\ onions' = [p \in DOMAIN os |->
                       [middleware |-> mw(os[p].middleware),
                        handlers |-> sl(os[p].handlers)]]
       /\ held' = [i \in DOMAIN hl |-> [hl[i] EXCEPT !.s = sl(@)]]
       /\ req' = [rq EXCEPT !.stack =
                    [i \in DOMAIN rq.stack |-> [rq.stack[i] EXCEPT !.m = mw(@)]]]
       /\ req2' = [req2 EXCEPT !.stack =
                     [i \in DOMAIN req2.stack |-> [req2.stack[i] EXCEPT !.m = mw(@)]]]
       /\ arrays' = [i \in DOMAIN ao |-> r.arrays[ao[i]]]
       /\ links' = [i \in DOMAIN lo |-> mw(r.links[lo[i]])]

\* The first Onion: New(hs...), the slice of the arguments having capacity c;
\* keep: the caller keeps that slice.
NewCall(hs, c, keep) ==
    /\ Returned
    /\ Len(onions) < MaxOnions
    /\ Roots = {}
    /\ LiveLinks + Len(hs) <= MaxLinks
    /\ LET mk == MakeSlice(arrays, hs, c)
           r == New(mk.arrays, links, mk.s)
       IN Returns(r, Append(onions, r.o),
                  IF keep /\ c > 0 THEN <<[src |-> "list", s |-> mk.s]>> ELSE held,
                  Idle)
    /\ parent' = Append(parent, 0)

WithCall(p, hs) ==
    /\ Returned
    /\ Len(onions) < MaxOnions
    /\ LiveLinks + onions[p].handlers.len + Len(hs) <= MaxLinks
    /\ LET r == With(arrays, links, onions[p], hs)
       IN Returns(r, Append(onions, r.o), held, Idle)
    /\ parent' = Append(parent, p)

\* There is room for one more handler on p: the rebuilt chain replaces the old.
Room(p) == LiveLinks + 1 <= MaxLinks

Registers(p, r) ==
    /\ Returns(r, [onions EXCEPT ![p] = r.o], held, Idle)
    /\ UNCHANGED parent

UseCall(p, h) ==
    /\ Returned
    /\ Room(p)
    /\ Registers(p, Use(arrays, links, onions[p], h))

UseFuncCall(p, f) ==
    /\ Returned
    /\ Room(p)
    /\ Registers(p, UseFunc(arrays, links, onions[p], f))

UseHandlerCall(p, h) ==
    /\ Returned
    /\ Room(p)
    /\ Registers(p, UseHandler(arrays, links, onions[p], h))

UseHandlerFuncCall(p, f) ==
    /\ Returned
    /\ Room(p)
    /\ Registers(p, UseHandlerFunc(arrays, links, onions[p], f))

\* n.ServeHTTP(rw, r): enter the Onion's entry middleware.
ServeHTTP(p) ==
    /\ Returned
    /\ req' = [status |-> "run", p |-> p, hs |-> HandlerSeq(p),
               stack |-> <<[m |-> onions[p].middleware, pc |-> 1]>>,
               trace |-> <<>>]
    /\ result' = "ok"
    /\ UNCHANGED <<arrays, links, onions, parent, held, req2>>

Top == req.stack[Len(req.stack)]

Running == req.status = "run" /\ req.stack # <<>>

\* The statements the running middleware executes next: up to and including
\* its next call of next.ServeHTTP or its panic, or up to its return.
RECURSIVE Upto(_, _)
Upto(prog, pc) ==
    IF pc > Len(prog) THEN <<>>
    ELSE IF prog[pc] \in {"next", "panic"} THEN <<prog[pc]>>
    ELSE <<prog[pc]>> \o Upto(prog, pc + 1)

Stmts == Upto(MwServeHTTP(Top.m), Top.pc)

Calls == Stmts # <<>> /\ Stmts[Len(Stmts)] = "next"

Panics == Stmts # <<>> /\ Stmts[Len(Stmts)] = "panic"

\* The marker the middleware's deferred function records when it runs.
Deferred(m, depth) ==
    IF Defers(m.handler) THEN <<[ev |-> "deferred", pos |-> depth, h |-> m.handler]>>
    ELSE <<>>

Marks(stmts) ==
    [i \in 1..Len(stmts) |->
       [ev |-> stmts[i], pos |-> Len(req.stack), h |-> Top.m.handler]]

\* The running handler records its markers and calls next.ServeHTTP(rw, r):
\* the middleware m.next points to; a nil next is a panic.
CallNext ==
    /\ Running
    /\ Calls
    /\ req' = IF Top.m.next = 0
              THEN [req EXCEPT !.status = "unwind",
                               !.trace = @ \o Marks(Front(Stmts))]
              ELSE [req EXCEPT
                      !.stack = Append([@ EXCEPT ![Len(@)].pc = @ + Len(Stmts)],
                                       [m |-> links[Top.m.next], pc |-> 1]),
                      !.trace = @ \o Marks(Front(Stmts))]
    /\ UNCHANGED <<arrays, links, onions, parent, held, req2, result>>

\* The running middleware records its markers and returns to its caller,
\* its deferred function running on the way; the outermost one ends the call.
Return ==
    /\ Running
    /\ ~Calls
    /\ ~Panics
    /\ req' = [req EXCEPT !.stack = Front(@),
                          !.trace = @ \o Marks(Stmts) \o Deferred(Top.m, Len(req.stack)),
                          !.status = IF Len(req.stack) = 1 THEN "done" ELSE @]
    /\ UNCHANGED <<arrays, links, onions, parent, held, req2, result>>

\* The running handler records its markers and panics.
Panic ==
    /\ Running
    /\ Panics
    /\ req' = [req EXCEPT !.status = "unwind",
                          !.trace = @ \o Marks(Front(Stmts))]
    /\ UNCHANGED <<arrays, links, onions, parent, held, req2, result>>

\* Mutant: every middleware recovers the panic of the handler it called.
Unwind_recovers ==
    /\ req.status = "unwind"
    /\ req.stack # <<>>
    /\ req' = [req EXCEPT
                 !.stack = Front(@),
                 !.trace = @ \o Deferred(Top.m, Len(req.stack)),
                 !.status = IF Len(req.stack) = 1 THEN "done" ELSE "run"]
    /\ UNCHANGED <<arrays, links, onions, parent, held, req2, result>>

\* The panic leaves the innermost middleware still on the stack: its deferred
\* function runs, the statements after its call of next do not. When that
\* function recovers, the middleware returns to its caller as usual; when no
\* middleware is left, the panic reaches the caller of ServeHTTP.
Unwind ==
    /\ req.status = "unwind"
    /\ req.stack # <<>>
    /\ req' = [req EXCEPT
                 !.stack = Front(@),
                 !.trace = @ \o Deferred(Top.m, Len(req.stack)),
                 !.status = IF Recovers(Top.m.handler)
                            THEN (IF Len(req.stack) = 1 THEN "done" ELSE "run")
                            ELSE (IF Len(req.stack) = 1 THEN "panic" ELSE "unwind")]
    /\ UNCHANGED <<arrays, links, onions, parent, held, req2, result>>

\* New(list...) once more, with a list the caller kept.
NewFromHeld(i) ==
    /\ Returned
    /\ Len(onions) < MaxOnions
    /\ held[i].src = "list"
    /\ LiveLinks + held[i].s.len <= MaxLinks
    /\ LET r == New(arrays, links, held[i].s)
       IN Returns(r, Append(onions, r.o), held, Idle)
    /\ parent' = Append(parent, 0)

\* n.Handlers(): the Onion's own slice, which the caller keeps.
HandlersCall(p) ==
    /\ Returned
    /\ held = <<>>
    /\ onions[p].handlers.len > 0
    /\ held' = Append(held, [src |-> "view", s |-> onions[p].handlers])
    /\ result' = "ok"
    /\ req' = Idle
    /\ UNCHANGED <<arrays, links, onions, parent, req2>>

\* The caller assigns to an element of a slice it holds: s[k-1] = h.
WriteElem(i, k, h) ==
    /\ Returned
    /\ k <= held[i].s.len
    /\ arrays' = [arrays EXCEPT ![held[i].s.arr][k] = h]
    /\ result' = "ok"
    /\ req' = Idle
    /\ UNCHANGED <<links, onions, parent, held, req2>>

Serving ==
    \/ \E p \in Onions : ServeHTTP(p)
    \/ CallNext
    \/ Return

Next ==
    \/ \E hs \in ArgLists, c \in 0..1 : NewCall(hs, Len(hs) + c, FALSE)
    \/ \E p \in Onions, hs \in KeptLists : WithCall(p, hs)
    \/ \E p \in Onions, h \in {NilH, HandlerFunc("A")} : UseCall(p, h)
    \/ \E p \in Onions : UseFuncCall(p, "S")
    \/ \E p \in Onions, h \in HttpIds : UseHandlerCall(p, h)
    \/ \E p \in Onions, f \in HttpIds : UseHandlerFuncCall(p, f)
    \/ Serving

\* The caller builds its Onions through the API alone and keeps no slice.
Spec == Init /\ [][Next]_vars

NextAlias ==
    \/ \E hs \in KeptLists, c \in 0..1, keep \in BOOLEAN : NewCall(hs, Len(hs) + c, keep)
    \/ \E i \in DOMAIN held : NewFromHeld(i)
    \/ \E p \in Onions, h \in {NilH, HandlerFunc("A")} : UseCall(p, h)
    \/ \E p \in Onions : UseFuncCall(p, "S")
    \/ \E p \in Onions : HandlersCall(p)
    \/ \E i \in DOMAIN held, k \in 1..MaxLinks, h \in Handlers : WriteElem(i, k, h)
    \/ Serving

\* The caller also keeps the list it gave to New and the slices Handlers()
\* returned, and writes to their elements.
SpecAlias == Init /\ [][NextAlias]_vars

\* ------------------------------------------------------- one Onion, run
NextRun ==
    \/ \E hs \in ArgLists, c \in 0..1 : NewCall(hs, Len(hs) + c, FALSE)
    \/ \E p \in Onions : UseCall(p, HandlerFunc("A"))
    \/ \E p \in Onions : UseFuncCall(p, "S")
    \/ \E p \in Onions : UseHandlerCall(p, "w")
    \/ Serving

\* One Onion is built and served. A handler that is running goes on to its
\* next statement: the calls and the returns of a ServeHTTP call in progress
\* are not put off for ever.
SpecRun == Init /\ [][NextRun]_vars /\ WF_vars(CallNext) /\ WF_vars(Return)

\* ------------------------------------------------------ failing handlers
\* The functions given to UseFunc: those that delegate, with or without a
\* deferred function, the one that panics, and the nil function.
FailFuncs == {"A", "D", "R", "P", "nil"}

NextFail ==
    \/ NewCall(<<>>, 0, FALSE)
    \/ \E p \in Onions : UseCall(p, NilH)
    \/ \E p \in Onions, f \in FailFuncs : UseFuncCall(p, f)
    \/ \E p \in Onions : UseHandlerCall(p, "nil")
    \/ \E p \in Onions : UseHandlerFuncCall(p, "nil")
    \/ Serving
    \/ Panic
    \/ Unwind

\* One Onion, from New(), on which handlers that may panic, and nil
\* functions and nil http.Handlers, are registered.
SpecFail == Init /\ [][NextFail]_vars

\* ------------------------------------------------- concurrent ServeHTTP
\* A second goroutine calls n.ServeHTTP(rw, r) on the same Onions.
ServeHTTP2(p) ==
    /\ req2.status # "run"
    /\ req2' = [status |-> "run", p |-> p, hs |-> HandlerSeq(p),
                stack |-> <<[m |-> onions[p].middleware, pc |-> 1]>>,
                trace |-> <<>>]
    /\ UNCHANGED <<arrays, links, onions, parent, held, req, result>>

Top2 == req2.stack[Len(req2.stack)]

Running2 == req2.status = "run" /\ req2.stack # <<>>

Stmts2 == Upto(MwServeHTTP(Top2.m), Top2.pc)

Calls2 == Stmts2 # <<>> /\ Stmts2[Len(Stmts2)] = "next"

Marks2(stmts) ==
    [i \in 1..Len(stmts) |->
       [ev |-> stmts[i], pos |-> Len(req2.stack), h |-> Top2.m.handler]]

CallNext2 ==
    /\ Running2
    /\ Calls2
    /\ req2' = IF Top2.m.next = 0
               THEN [req2 EXCEPT !.status = "unwind",
                                 !.trace = @ \o Marks2(Front(Stmts2))]
               ELSE [req2 EXCEPT
                       !.stack = Append([@ EXCEPT ![Len(@)].pc = @ + Len(Stmts2)],
                                        [m |-> links[Top2.m.next], pc |-> 1]),
                       !.trace = @ \o Marks2(Front(Stmts2))]
    /\ UNCHANGED <<arrays, links, onions, parent, held, req, result>>

Return2 ==
    /\ Running2
    /\ ~Calls2
    /\ req2' = [req2 EXCEPT !.stack = Front(@),
                            !.trace = @ \o Marks2(Stmts2),
                            !.status = IF Len(req2.stack) = 1 THEN "done" ELSE @]
    /\ UNCHANGED <<arrays, links, onions, parent, held, req, result>>

\* A third goroutine calls p.With(hs...) while the two calls are in progress.
WithConc(p, hs) ==
    /\ Len(onions) < MaxOnions
    /\ LiveLinks + onions[p].handlers.len + Len(hs) <= MaxLinks
    /\ LET r == With(arrays, links, onions[p], hs)
       IN Returns(r, Append(onions, r.o), held, req)
    /\ parent' = Append(parent, p)

\* The lists the Onion shared between goroutines is made of.
ConcLists ==
    {<<>>, <<HandlerFunc("A")>>,
     <<HandlerFunc("A"), Wrap("w")>>, <<HandlerFunc("A"), HandlerFunc("S")>>}

NextConc ==
    \/ \E hs \in ConcLists : NewCall(hs, Len(hs), FALSE)
    \/ \E p \in Onions, hs \in KeptLists : WithConc(p, hs)
    \/ Serving
    \/ \E p \in Onions : ServeHTTP2(p)
    \/ CallNext2
    \/ Return2

\* The Onions are made by New and With and never registered on; two
\* goroutines serve requests on them while a third calls With.
SpecConc == Init /\ [][NextConc]_vars

\* ------------------------------------------- registration during a call
\* p.Use(h) while the caller's ServeHTTP call may be in progress (from
\* inside a handler): the call goes on afterwards.
UseLive(p, h) ==
    /\ Room(p)
    /\ LET r == Use(arrays, links, onions[p], h)
       IN Returns(r, [onions EXCEPT ![p] = r.o], held, req)
    /\ UNCHANGED parent

NextLive ==
    \/ \E hs \in ConcLists : NewCall(hs, Len(hs), FALSE)
    \/ \E p \in Onions, h \in {HandlerFunc("A"), Wrap("w")} : UseLive(p, h)
    \/ \E p \in Onions, hs \in KeptLists : WithConc(p, hs)
    \/ Serving

\* Handlers are registered, and Onions derived, also while a ServeHTTP call
\* is in progress.
SpecLive == Init /\ [][NextLive]_vars

\* ------------------------------------------------------------------ claims
Done == req.status = "done"

\* A handler that marks, calls next once and marks again.
Delegating(h) == h.kind = "func" /\ FuncBody(h.id) = <<"before", "next", "after">>

\* A handler that calls next.
CallsNext(h) == h # NilH /\ "next" \in Range(Body(h))

\* The call reaches position i: every handler before it calls next.
Reached(hs, i) == \A j \in 1..(i - 1) : CallsNext(hs[j])

Ev(e, i, hs) == [ev |-> e, pos |-> i, h |-> hs[i]]

Count(tr, e) == Cardinality({k \in DOMAIN tr : tr[k] = e})

\* The first markers of positions 1..i, in that order.
Ins(hs, i) == [j \in 1..i |-> Ev(Body(hs[j])[1], j, hs)]

\* The "after" markers of the positions i, i-1, ..., 1 that have one.
Outs(hs, i) ==
    LET back == [k \in 1..i |-> i + 1 - k]
        HasAfter(j) == Body(hs[j])[Len(Body(hs[j]))] = "after"
        sel == SelectSeq(back, HasAfter)
    IN [k \in DOMAIN sel |-> Ev("after", sel[k], hs)]

Sync(p) == ChainOf(p) = HandlerSeq(p)

\* The markers a call on the handlers hs records from position i on, when
\* the handlers are invoked in the order of hs, each with the rest as next.
RECURSIVE Expect(_, _)
Expect(hs, i) ==
    IF i > Len(hs) \/ hs[i] = NilH THEN <<>>
    ELSE LET b == Body(hs[i]) IN
         IF CallsNext(hs[i])
         THEN <<Ev(b[1], i, hs)>> \o Expect(hs, i + 1)
                \o (IF b[Len(b)] = "after" THEN <<Ev("after", i, hs)>> ELSE <<>>)
         ELSE <<Ev(b[1], i, hs)>>

Extends == Len(onions') > Len(onions)

\* C2: P2 = P1.With(hs...) leaves P1's handlers and chain as they were, and
\* P2's handlers, and its chain, are P1's handlers followed by hs.
C2_WithKeepsParent ==
    [][\A p \in Onions, hs \in KeptLists :
         (Extends /\ WithCall(p, hs)) =>
           /\ HandlerSeq(p)' = HandlerSeq(p)
           /\ ChainOf(p)' = ChainOf(p)
           /\ Elems(arrays', onions'[Len(onions')].handlers) = HandlerSeq(p) \o hs
           /\ Chain(links', onions'[Len(onions')].middleware) = HandlerSeq(p) \o hs]_vars

C2_Witness ==
    \E q \in Onions :
       /\ parent[q] # 0
       /\ HandlerSeq(parent[q]) # <<>>
       /\ Len(HandlerSeq(q)) > Len(HandlerSeq(parent[q]))
       /\ Done
       /\ req.p = parent[q]

Same(p) == HandlerSeq(p)' = HandlerSeq(p) /\ ChainOf(p)' = ChainOf(p)

\* The step registers a handler on q.
Lengthens(q) == onions'[q].handlers.len > onions[q].handlers.len

\* C3: a registration on one pipeline, or a With on any, changes the
\* handlers and the chain of no other pipeline, spare capacity or not.
C3_Branches ==
    [][\A p \in Onions :
         (Extends \/ \E q \in Onions \ {p} : Lengthens(q)) => Same(p)]_vars

C3_Witness ==
    /\ Len(onions) = 3
    /\ parent[2] = 1
    /\ parent[3] = 1
    /\ onions[1].handlers.cap > onions[1].handlers.len
    /\ Len(HandlerSeq(2)) > Len(HandlerSeq(1))
    /\ Len(HandlerSeq(3)) = Len(HandlerSeq(1)) + 2
    /\ HandlerSeq(2)[Len(HandlerSeq(1)) + 1] # HandlerSeq(3)[Len(HandlerSeq(1)) + 1]
    /\ HandlerSeq(3)[Len(HandlerSeq(3))] = HandlerFunc("A")

\* C4: after every New, Use, UseFunc, UseHandler, UseHandlerFunc and With the
\* chain of each pipeline links exactly its handlers, in order, and a
\* ServeHTTP call enters a chain that links the handlers of its pipeline.
C4_Sync ==
    /\ \A p \in Onions : Sync(p)
    /\ Running => Chain(links, req.stack[1].m) = req.hs

C4_Witness ==
    /\ Running
    /\ Len(req.hs) >= 2
    /\ Len(req.stack) = 1
    /\ req.trace = <<>>

\* C5: Use(nil) panics and changes neither the handlers nor the chain of
\* any pipeline, so the next ServeHTTP runs what was registered before.
C5_UseNil ==
    [][\A p \in Onions :
         UseCall(p, NilH) =>
           /\ result' = "panic"
           /\ onions' = onions
           /\ arrays' = arrays
           /\ links' = links]_vars

C5_Witness ==
    /\ result = "panic"
    /\ \E p \in Onions : HandlerSeq(p) # <<>>

\* C6: no Onion is made of a list that holds a nil handler: New and With
\* fail fast on it.
C6_NilFailsFast == \A p \in Onions : NilH \notin Range(HandlerSeq(p))

\* C7: a caller's write to the list it gave to New changes no pipeline's
\* handlers and leaves handlers and chain consistent.
C7_CopySemantics ==
    [][\A i \in DOMAIN held, k \in 1..MaxLinks, h \in Handlers :
         (held[i].src = "list" /\ WriteElem(i, k, h)) =>
           \A p \in Onions : HandlerSeq(p)' = HandlerSeq(p) /\ (Sync(p) => Sync(p)')]_vars

\* C8: a write to an element of the slice Handlers() returned leaves every
\* pipeline's chain equal to its handlers.
C8_ViewSafe ==
    [][\A i \in DOMAIN held, k \in 1..MaxLinks, h \in Handlers :
         (held[i].src = "view" /\ WriteElem(i, k, h)) =>
           \A p \in Onions : Sync(p) => Sync(p)']_vars

\* The first position whose handler returns without calling next, if the
\* call reaches it.
Stops(hs, i) == Reached(hs, i) /\ hs[i] # NilH /\ ~CallsNext(hs[i])

\* C9: when the handler at position i returns without calling next, no
\* handler after i is invoked and the handlers before i finish in reverse.
C9_ShortCircuit ==
    \A i \in DOMAIN req.hs :
       Stops(req.hs, i) =>
         /\ \A k \in DOMAIN req.trace : req.trace[k].pos <= i
         /\ Len(req.stack) <= i
         /\ Done => req.trace = Ins(req.hs, i) \o Outs(req.hs, i - 1)

C9_Witness ==
    /\ Done
    /\ Len(req.hs) = 3
    /\ Stops(req.hs, 2)
    /\ Delegating(req.hs[1])
    /\ req.hs[3] # NilH
    /\ Len(req.trace) = 3

InFlight == req.status = "run" \/ req2.status = "run"

\* The step writes neither p's fields, nor its backing array, nor a link of
\* its chain.
Untouched(p) ==
    /\ onions'[p] = onions[p]
    /\ onions[p].handlers.arr # 0 =>
          arrays'[onions[p].handlers.arr] = arrays[onions[p].handlers.arr]
    /\ \A a \in Range(WalkFrom(links, onions[p].middleware.next, {})) :
          links'[a] = links[a]

\* C11: while ServeHTTP calls and With calls on the same Onions interleave
\* (and no Use), no step writes an Onion's handlers, chain or links, and
\* every ServeHTTP call records exactly what its Onion's handlers, invoked
\* in registration order, record.
C11_Concurrent ==
    /\ [][InFlight => \A p \in Onions : Untouched(p)]_vars
    /\ [](req.status = "done" => req.trace = Expect(HandlerSeq(req.p), 1))
    /\ [](req2.status = "done" => req2.trace = Expect(HandlerSeq(req2.p), 1))

C11_Witness ==
    /\ req.status = "run"
    /\ req2.status = "done"
    /\ req.p = req2.p
    /\ req.trace # <<>>
    /\ Len(req2.trace) >= 2
    /\ \E q \in Onions : parent[q] = req.p /\ Len(HandlerSeq(q)) > Len(HandlerSeq(req.p))

\* The step is a call of Use, UseFunc, UseHandler or UseHandlerFunc on p
\* that registers h.
Registered(p, h) ==
    \/ UseCall(p, h)
    \/ h.kind = "func" /\ UseFuncCall(p, h.id)
    \/ h.kind = "wrap" /\ (UseHandlerCall(p, h.id) \/ UseHandlerFuncCall(p, h.id))

\* C12: Handlers() of the Onion New(hs...) returns is hs (nothing for
\* New()), and each successful Use, UseFunc, UseHandler and UseHandlerFunc
\* adds exactly its handler at the end and leaves the others as they were.
C12_Handlers ==
    [][/\ (Extends /\ parent'[Len(onions')] = 0) =>
            \E hs \in ArgLists :
               /\ Elems(arrays', onions'[Len(onions')].handlers) = hs
               /\ \E c \in 0..1 : NewCall(hs, Len(hs) + c, FALSE)
       /\ \A p \in Onions :
            /\ HandlerSeq(p)' # HandlerSeq(p) => Lengthens(p)
            /\ Lengthens(p) =>
                  \E h \in Handlers :
                     /\ HandlerSeq(p)' = Append(HandlerSeq(p), h)
                     /\ Registered(p, h)]_vars

C12_Witness ==
    /\ Len(onions) = 1
    /\ req = Idle
    /\ HandlerSeq(1) = <<HandlerFunc("S"), WrapFunc("w"), HandlerFunc("A")>>

\* C13: a ServeHTTP call on an Onion with no handlers has nothing to
\* execute, records no marker, does not panic, and changes neither the
\* Onions nor the heaps.
C13_EmptyNoOp ==
    /\ []((req.status # "idle" /\ req.hs = <<>>) =>
            /\ req.status \in {"run", "done"}
            /\ req.trace = <<>>
            /\ Len(req.stack) <= 1
            /\ Running => Stmts = <<>>)
    /\ [][(req'.status # "idle" /\ req'.hs = <<>> /\ req'.p = 1) =>
            UNCHANGED <<onions, arrays, links>>]_vars

C13_Witness ==
    /\ Done
    /\ req.p = 1
    /\ HandlerSeq(1) = <<>>
    /\ onions[1].middleware = ZeroMw

\* The call reaches position i and the handler there panics.
FailsAt(hs, i) == Reached(hs, i) /\ hs[i] # NilH /\ "panic" \in Range(Body(hs[i]))

\* The innermost handler before position i that recovers, 0 when none does.
Guard(hs, i) ==
    LET rs == {j \in 1..(i - 1) : Recovers(hs[j])}
    IN IF rs = {} THEN 0 ELSE CHOOSE j \in rs : \A k \in rs : k <= j

\* The call is over: it returned, or its panic reached the caller.
Over == req.status \in {"done", "panic"}

HasAfter(h) == h # NilH /\ "after" \in Range(Body(h))

\* h is neither nil nor made of a nil function or a nil http.Handler.
Invocable(h) == h # NilH /\ h.id # "nil"

\* C14 as stated: the panic of the handler at i runs the statements each
\* enclosing handler placed after its call of next, as a return does.
C14_UnwindsAsReturn ==
    \A i \in DOMAIN req.hs :
       (Over /\ FailsAt(req.hs, i) /\ \A k \in DOMAIN req.hs : Invocable(req.hs[k])) =>
          \A j \in 1..(i - 1) :
             HasAfter(req.hs[j]) => Count(req.trace, Ev("after", j, req.hs)) = 1

\* C14, amended: the panic of the handler at i is not caught by the
\* pipeline: it reaches the caller of ServeHTTP unless a handler before i
\* recovers it. On its way it runs the deferred functions of the enclosing
\* handlers, innermost first, and skips the statements after their call of
\* next, in every handler it passes through and in the one that recovers;
\* the handlers outside that one finish as after a return.
C14_Propagates ==
    \A i \in DOMAIN req.hs :
       (Over /\ FailsAt(req.hs, i)) =>
          LET g == Guard(req.hs, i) IN
          /\ (req.status = "panic") <=> (g = 0)
          /\ \A k \in DOMAIN req.trace : req.trace[k].pos <= i
          /\ \A j \in 1..(i - 1) :
                /\ Count(req.trace, Ev("after", j, req.hs)) =
                      (IF j < g /\ HasAfter(req.hs[j]) THEN 1 ELSE 0)
                /\ Count(req.trace, Ev("deferred", j, req.hs)) =
                      (IF Defers(req.hs[j]) THEN 1 ELSE 0)
          /\ \A k1, k2 \in DOMAIN req.trace :
                (/\ k1 < k2
                 /\ req.trace[k1].ev \in {"after", "deferred"}
                 /\ req.trace[k2].ev \in {"after", "deferred"})
                    => req.trace[k1].pos >= req.trace[k2].pos

C14_Witness ==
    /\ req.status = "panic"
    /\ req.hs = <<HandlerFunc("D"), HandlerFunc("A"), HandlerFunc("P")>>
    /\ Len(req.trace) = 4

\* The middleware values of p's chain: the entry and the links after it.
Nodes(p) ==
    LET walk == WalkFrom(links, onions[p].middleware.next, {})
    IN <<onions[p].middleware>> \o [k \in DOMAIN walk |-> links[walk[k]]]

\* C15: the chain of n > 0 handlers is n middleware values, one per handler
\* and each with a non-nil next, and then one terminal value with no handler
\* and no next (so no cycle); the call that reaches the terminal value
\* executes nothing there, and no call panics.
C15_Terminal ==
    /\ \A p \in Onions :
          HandlerSeq(p) # <<>> =>
             LET n == Len(HandlerSeq(p)) IN
             /\ Len(Nodes(p)) = n + 1
             /\ \A k \in 1..n :
                   Nodes(p)[k].handler = HandlerSeq(p)[k] /\ Nodes(p)[k].next # 0
             /\ Nodes(p)[n + 1] = ZeroMw
             /\ MwServeHTTP(Nodes(p)[n + 1]) = <<>>
    /\ req.status \notin {"unwind", "panic"}
    /\ (Running /\ Len(req.stack) = Len(req.hs) + 1) => Top.m = ZeroMw /\ Stmts = <<>>

C15_Witness ==
    /\ Running
    /\ Len(req.hs) >= 2
    /\ Len(req.stack) = Len(req.hs) + 1
    /\ Top.m = ZeroMw
    /\ req.hs[Len(req.hs)] = HandlerFunc("A")

\* C18: UseFunc(nil), UseHandler(nil) and UseHandlerFunc(nil) panic, as
\* Use(nil) does, and leave the Onion as it was.
C18_NilAborts ==
    [][\A p \in Onions :
         (\/ UseFuncCall(p, "nil")
          \/ UseHandlerCall(p, "nil")
          \/ UseHandlerFuncCall(p, "nil")) =>
            /\ result' = "panic"
            /\ onions' = onions]_vars

\* C16: a registration on one Onion leaves the handlers of every other
\* Onion as they were, and equal to its chain, also when the Onions were
\* made by New from the same list.
C16_OwnSequence ==
    [][\A q \in Onions, p \in Onions :
         (p # q /\ Lengthens(q)) =>
            /\ HandlerSeq(p)' = HandlerSeq(p)
            /\ Sync(p) => Sync(p)']_vars

\* C17: whatever is registered or derived while a ServeHTTP call is in
\* progress, each middleware of the call still links the handlers it linked
\* when the call started, the finished call has recorded what those
\* handlers record, and a call that starts later enters the chain of the
\* handlers registered by then.
C17_InFlight ==
    /\ [](Running =>
            \A i \in DOMAIN req.stack :
               Chain(links, req.stack[i].m) = SubSeq(req.hs, i, Len(req.hs)))
    /\ [](Done => req.trace = Expect(req.hs, 1))
    /\ [][(req.status # "run" /\ req'.status = "run") =>
            /\ req'.hs = HandlerSeq(req'.p)
            /\ Chain(links, req'.stack[1].m) = HandlerSeq(req'.p)]_vars

C17_Witness ==
    /\ Done
    /\ Len(req.hs) >= 2
    /\ Len(req.trace) >= 3
    /\ Len(HandlerSeq(req.p)) > Len(req.hs)
    /\ Len(links) > Len(HandlerSeq(req.p))

\* The handlers of hs that delegate in a call: those the call reaches and
\* that call next.
NDeleg(hs) == Cardinality({i \in DOMAIN hs : Reached(hs, i) /\ CallsNext(hs[i])})

\* The calls of next nested inside the running call.
Depth == Len(req.stack) - 1

\* C19: every ServeHTTP call ends; it records the first marker of each
\* handler at most once and no marker beyond the last handler; its nesting
\* depth never exceeds the number of handlers that delegate (at most n), and
\* equals it where the innermost middleware is entered and calls no next.
C19_Terminates ==
    /\ (req.status = "run") ~> (req.status = "done")
    /\ [](\A k \in DOMAIN req.trace :
            /\ req.trace[k].pos <= Len(req.hs)
            /\ Count(req.trace, req.trace[k]) = 1)
    /\ [](Running =>
            /\ Depth <= NDeleg(req.hs)
            /\ NDeleg(req.hs) <= Len(req.hs)
            /\ (Top.pc = 1 /\ ~Calls) => Depth = NDeleg(req.hs))

C19_Witness ==
    /\ Running
    /\ Len(req.hs) = 3
    /\ Depth = 3
    /\ NDeleg(req.hs) = 3

====
